---- MODULE Spec2Model ----
(***************************************************************************)
(* Model of goxkit/otel: the construction of the OTLP exporter gRPC        *)
(* channel (packages otlpgrpc and otlp_grpc).                              *)
(*                                                                         *)
(* Strings are sequences of one-character strings.  A Go map[string]string *)
(* is a set of <<key, value>> pairs.  A Go pointer / interface value is    *)
(* Nil (the empty tuple) or a one-element tuple holding the object.        *)
(* Durations are whole seconds; the backoff multiplier is in tenths.       *)
(***************************************************************************)
EXTENDS Integers, Sequences, FiniteSets, TLC

VARIABLES variant, cfgs, pc, creds, auth, ctorCalls, conn, err, ret, calls, rtsSeen

vars == <<variant, cfgs, pc, creds, auth, ctorCalls, conn, err, ret, calls, rtsSeen>>

(* ------------------------------ bounds --------------------------------- *)

\* longest header string of the parsing specification
MaxHeaderLen == 6

\* longest header string of the channel specification
MaxCfgHeaderLen == 3

\* number of concurrent in-flight calls on one channel
MaxCalls == 2

(* ------------------------------ inputs --------------------------------- *)

Alphabet == {"a", "1", "=", ",", " "}

RECURSIVE StringsUpTo(_)
StringsUpTo(n) ==
    IF n = 0 THEN {<<>>}
    ELSE LET shorter == StringsUpTo(n - 1)
         IN shorter \cup {Append(s, c) : s \in {t \in shorter : Len(t) = n - 1}, c \in Alphabet}

GoodEndpoint == "localhost:4317"

BadEndpoint == "://collector"

Endpoints == {GoodEndpoint, BadEndpoint}

IdleTimeouts == {0, 30}

KeepAliveTimes == {5, 10}

KeepAliveTimeouts == {1}

Variants == {"otlpgrpc", "otlp_grpc"}

CallIds == 1..MaxCalls

Configs(headerStrings) ==
    [Endpoint : Endpoints,
     ExporterTLSEnabled : BOOLEAN,
     ExporterIdleTimeout : IdleTimeouts,
     ExporterKeepAliveTime : KeepAliveTimes,
     ExporterKeepAliveTimeout : KeepAliveTimeouts,
     ExporterHeaders : headerStrings]

(* --------------------------- pointers ---------------------------------- *)

Nil == <<>>

Ptr(x) == <<x>>

Deref(p) == p[1]

(* ------------------- package strings, as the code uses it -------------- *)

WhiteSpace == {" ", "\t", "\n", "\r", "\f"}

RECURSIVE IndexFrom(_, _, _)
IndexFrom(s, c, i) ==
    IF i > Len(s) THEN 0
    ELSE IF s[i] = c THEN i
    ELSE IndexFrom(s, c, i + 1)

\* strings.Index, 1-based; 0 when c does not occur
Index(s, c) == IndexFrom(s, c, 1)

RECURSIVE Split(_, _)
Split(s, sep) ==
    LET i == Index(s, sep)
    IN IF i = 0 THEN <<s>>
       ELSE <<SubSeq(s, 1, i - 1)>> \o Split(SubSeq(s, i + 1, Len(s)), sep)

\* strings.SplitN(s, sep, 2)
SplitN2(s, sep) ==
    LET i == Index(s, sep)
    IN IF i = 0 THEN <<s>>
       ELSE <<SubSeq(s, 1, i - 1), SubSeq(s, i + 1, Len(s))>>

RECURSIVE TrimLeft(_)
TrimLeft(s) ==
    IF s # <<>> /\ Head(s) \in WhiteSpace THEN TrimLeft(Tail(s)) ELSE s

RECURSIVE TrimRight(_)
TrimRight(s) ==
    IF s # <<>> /\ s[Len(s)] \in WhiteSpace THEN TrimRight(SubSeq(s, 1, Len(s) - 1)) ELSE s

TrimSpace_LeftOnly(s) == TrimLeft(s)

TrimSpace(s) == TrimRight(TrimLeft(s))

(* ---------------------- newPerRPCCredentials --------------------------- *)

MapPut_FirstWins(h, key, value) ==
    IF \E p \in h : p[1] = key THEN h ELSE h \cup {<<key, value>>}

\* h[key] = value
MapPut(h, key, value) == {p \in h : p[1] # key} \cup {<<key, value>>}

PutEntry_KeepMalformed(h, kv) ==
    LET parts == SplitN2(kv, "=")
    IN IF Len(parts) = 2
       THEN MapPut(h, TrimSpace(parts[1]), TrimSpace(parts[2]))
       ELSE MapPut(h, TrimSpace(parts[1]), <<>>)

\* the body of the loop over the comma-separated entries
PutEntry(h, kv) ==
    LET parts == SplitN2(kv, "=")
    IN IF Len(parts) = 2
       THEN LET key == TrimSpace(parts[1])
                value == TrimSpace(parts[2])
            IN IF key # <<>> THEN MapPut(h, key, value) ELSE h
       ELSE h

RECURSIVE PutEntries(_, _)
PutEntries(h, keyValue) ==
    IF keyValue = <<>> THEN h
    ELSE PutEntries(PutEntry(h, Head(keyValue)), Tail(keyValue))

ParseHeaders(headers) ==
    IF headers # <<>> THEN PutEntries({}, Split(headers, ",")) ELSE {}

PerRPCCredentialsOf_AlwaysSecure(c) ==
    Ptr([tlsEnabled |-> TRUE, headers |-> ParseHeaders(c.ExporterHeaders)])

PerRPCCredentialsOf(c) ==
    Ptr([tlsEnabled |-> c.ExporterTLSEnabled, headers |-> ParseHeaders(c.ExporterHeaders)])

GetRequestMetadata_OnlyWhenSecure(h) ==
    [md |-> IF Deref(h).tlsEnabled THEN Deref(h).headers ELSE {}, err |-> Nil]

GetRequestMetadata(h) == [md |-> Deref(h).headers, err |-> Nil]

RequireTransportSecurity(h) == Deref(h).tlsEnabled

(* ------------------------ evaluateCredentials -------------------------- *)

InsecureCredentials == Ptr([kind |-> "insecure", certPool |-> {}, serverNameOverride |-> <<>>])

\* x509.NewCertPool(): a pool holding no certificate
NewCertPool == {}

NewClientTLSFromCert(certPool, serverNameOverride) ==
    Ptr([kind |-> "tls", certPool |-> certPool, serverNameOverride |-> serverNameOverride])

EvaluateCredentialsOf(c) ==
    IF ~c.ExporterTLSEnabled THEN InsecureCredentials
    ELSE NewClientTLSFromCert(NewCertPool, <<>>)

(* --------------------------- grpc.NewClient ---------------------------- *)

\* the fixed reconnection curve: 1 * time.Second
BaseDelay == 1

\* 1.6, in tenths
MultiplierTenths == 16

\* 15 * time.Second
MaxDelay == 15

MinConnectTimeout == 0

ConnectParams_FromConfig(c) ==
    [Backoff |-> [BaseDelay |-> BaseDelay, Multiplier |-> MultiplierTenths,
                  MaxDelay |-> c.ExporterIdleTimeout],
     MinConnectTimeout |-> MinConnectTimeout]

ConnectParams(c) ==
    [Backoff |-> [BaseDelay |-> BaseDelay, Multiplier |-> MultiplierTenths,
                  MaxDelay |-> MaxDelay],
     MinConnectTimeout |-> MinConnectTimeout]

\* the argument list of grpc.NewClient
DialArgs(c, transportCreds, perRPCCreds) ==
    [target |-> c.Endpoint,
     TransportCredentials |-> transportCreds,
     PerRPCCredentials |-> perRPCCreds,
     IdleTimeout |-> c.ExporterIdleTimeout,
     KeepaliveParams |-> [Time |-> c.ExporterKeepAliveTime,
                          Timeout |-> c.ExporterKeepAliveTimeout],
     ConnectParams |-> ConnectParams(c)]

\* What the channel library answers to one invocation.  It rejects a target
\* it cannot parse, and per-call credentials that require transport security
\* on plaintext transport credentials; otherwise it hands out a channel.
NewClientResult(args) ==
    IF args.target = BadEndpoint
    THEN [conn |-> Nil, err |-> Ptr([msg |-> "invalid target", wraps |-> Nil])]
    ELSE IF /\ Deref(args.TransportCredentials).kind = "insecure"
            /\ args.PerRPCCredentials # Nil
            /\ RequireTransportSecurity(args.PerRPCCredentials)
    THEN [conn |-> Nil, err |-> Ptr([msg |-> "credentials require transport level security",
                                     wraps |-> Nil])]
    ELSE [conn |-> Ptr(args), err |-> Nil]

\* fmt.Errorf("failed to create otel exporter gRPC conn: %w", err)
Errorf(e) == Ptr([msg |-> "failed to create otel exporter gRPC conn", wraps |-> e])

(* ------------------------------ state ---------------------------------- *)

IdleCall == [pc |-> "idle", md |-> {}, err |-> Nil]

InitWith(headerStrings) ==
    /\ variant \in Variants
    /\ cfgs \in Configs(headerStrings)
    /\ pc = "start"
    /\ creds = Nil
    /\ auth = Nil
    /\ ctorCalls = <<>>
    /\ conn = Nil
    /\ err = Nil
    /\ ret = Nil
    /\ calls = [c \in CallIds |-> IdleCall]
    /\ rtsSeen = {}

Init == InitWith(StringsUpTo(MaxCfgHeaderLen))

\* otlpgrpc: grpc.WithTransportCredentials(evaluateCredentials(cfgs))
EvaluateCredentials ==
    /\ pc = "start"
    /\ variant = "otlpgrpc"
    /\ creds' = EvaluateCredentialsOf(cfgs)
    /\ pc' = "auth"
    /\ UNCHANGED <<variant, cfgs, auth, ctorCalls, conn, err, ret, calls, rtsSeen>>

\* otlp_grpc: grpc.WithTransportCredentials(insecure.NewCredentials())
ForceInsecureCredentials ==
    /\ pc = "start"
    /\ variant = "otlp_grpc"
    /\ creds' = InsecureCredentials
    /\ pc' = "dial"
    /\ UNCHANGED <<variant, cfgs, auth, ctorCalls, conn, err, ret, calls, rtsSeen>>

\* otlpgrpc: grpc.WithPerRPCCredentials(newPerRPCCredentials(cfgs))
NewPerRPCCredentials ==
    /\ pc = "auth"
    /\ auth' = PerRPCCredentialsOf(cfgs)
    /\ pc' = "dial"
    /\ UNCHANGED <<variant, cfgs, creds, ctorCalls, conn, err, ret, calls, rtsSeen>>

\* conn, err := grpc.NewClient(...)
NewClient ==
    /\ pc = "dial"
    /\ LET args == DialArgs(cfgs, creds, auth)
           r == NewClientResult(args)
       IN /\ ctorCalls' = Append(ctorCalls, args)
          /\ conn' = r.conn
          /\ err' = r.err
    /\ pc' = "check"
    /\ UNCHANGED <<variant, cfgs, creds, auth, ret, calls, rtsSeen>>

Return_Retry ==
    /\ pc = "check"
    /\ IF err # Nil /\ Len(ctorCalls) < 2
       THEN /\ pc' = "dial"
            /\ creds' = InsecureCredentials
            /\ ret' = ret
       ELSE /\ pc' = "done"
            /\ creds' = creds
            /\ ret' = IF err # Nil THEN Ptr([conn |-> Nil, err |-> Errorf(err)])
                      ELSE Ptr([conn |-> conn, err |-> err])
    /\ UNCHANGED <<variant, cfgs, auth, ctorCalls, conn, err, calls, rtsSeen>>

Return_Unwrapped ==
    /\ pc = "check"
    /\ ret' = Ptr([conn |-> conn, err |-> err])
    /\ pc' = "done"
    /\ UNCHANGED <<variant, cfgs, creds, auth, ctorCalls, conn, err, calls, rtsSeen>>

\* if err != nil { return nil, fmt.Errorf(...) }; return conn, err
Return ==
    /\ pc = "check"
    /\ ret' = IF err # Nil THEN Ptr([conn |-> Nil, err |-> Errorf(err)])
              ELSE Ptr([conn |-> conn, err |-> err])
    /\ pc' = "done"
    /\ UNCHANGED <<variant, cfgs, creds, auth, ctorCalls, conn, err, calls, rtsSeen>>

ChannelOpen == pc = "done" /\ Deref(ret).conn # Nil

\* the channel library asks the authenticator whether it needs a secure transport
InvokeRequireTransportSecurity ==
    /\ auth # Nil
    /\ rtsSeen' = rtsSeen \cup {RequireTransportSecurity(auth)}
    /\ UNCHANGED <<variant, cfgs, pc, creds, auth, ctorCalls, conn, err, ret, calls>>

InvokeGetRequestMetadata_Consumes(c) ==
    /\ ChannelOpen
    /\ auth # Nil
    /\ calls[c].pc = "idle"
    /\ LET r == GetRequestMetadata(auth)
       IN calls' = [calls EXCEPT ![c] = [pc |-> "got", md |-> r.md, err |-> r.err]]
    /\ auth' = Ptr([Deref(auth) EXCEPT !.headers = {}])
    /\ UNCHANGED <<variant, cfgs, pc, creds, ctorCalls, conn, err, ret, rtsSeen>>

\* an in-flight call of the channel asks the authenticator for its metadata
InvokeGetRequestMetadata(c) ==
    /\ ChannelOpen
    /\ auth # Nil
    /\ calls[c].pc = "idle"
    /\ LET r == GetRequestMetadata(auth)
       IN calls' = [calls EXCEPT ![c] = [pc |-> "got", md |-> r.md, err |-> r.err]]
    /\ UNCHANGED <<variant, cfgs, pc, creds, auth, ctorCalls, conn, err, ret, rtsSeen>>

\* the call goes out on the channel's transport with the metadata it was given;
\* a channel without an authenticator attaches none
SendCall(c) ==
    /\ ChannelOpen
    /\ IF auth # Nil THEN calls[c].pc = "got" ELSE calls[c].pc = "idle"
    /\ calls' = [calls EXCEPT ![c].pc = "sent"]
    /\ UNCHANGED <<variant, cfgs, pc, creds, auth, ctorCalls, conn, err, ret, rtsSeen>>

CompleteCall(c) ==
    /\ calls[c].pc = "sent"
    /\ calls' = [calls EXCEPT ![c] = IdleCall]
    /\ UNCHANGED <<variant, cfgs, pc, creds, auth, ctorCalls, conn, err, ret, rtsSeen>>

Next ==
    \/ EvaluateCredentials
    \/ ForceInsecureCredentials
    \/ NewPerRPCCredentials
    \/ NewClient
    \/ Return
    \/ InvokeRequireTransportSecurity
    \/ \E c \in CallIds : InvokeGetRequestMetadata(c)
    \/ \E c \in CallIds : SendCall(c)
    \/ \E c \in CallIds : CompleteCall(c)

Spec == Init /\ [][Next]_vars

(* ----------------- the header parser on its own ------------------------ *)

\* the otlpgrpc package building its credentials, over the longer header
\* strings; the fields the parser does not read are held fixed
InitParse ==
    /\ InitWith(StringsUpTo(MaxHeaderLen))
    /\ variant = "otlpgrpc"
    /\ cfgs.Endpoint = GoodEndpoint
    /\ ~cfgs.ExporterTLSEnabled
    /\ cfgs.ExporterIdleTimeout = 0
    /\ cfgs.ExporterKeepAliveTime = 5

NextParse ==
    \/ EvaluateCredentials
    \/ NewPerRPCCredentials

SpecParse == InitParse /\ [][NextParse]_vars

(* ------------- the header grammar, stated independently ---------------- *)

\* an entry is a maximal comma-free stretch <<first, last>> of the string
EntriesOf(s) ==
    {e \in (1..(Len(s) + 1)) \X (0..Len(s)) :
        /\ e[2] >= e[1] - 1
        /\ (e[1] = 1 \/ s[e[1] - 1] = ",")
        /\ (e[2] = Len(s) \/ s[e[2] + 1] = ",")
        /\ \A k \in e[1]..e[2] : s[k] # ","}

EntryText(s, e) == SubSeq(s, e[1], e[2])

HasEq(t) == \E i \in 1..Len(t) : t[i] = "="

FirstEq(t) == CHOOSE i \in 1..Len(t) : t[i] = "=" /\ \A j \in 1..(i - 1) : t[j] # "="

\* t without its leading and trailing whitespace
Stripped(t) ==
    LET cuts == {x \in (1..(Len(t) + 1)) \X (0..Len(t)) :
                    /\ x[2] >= x[1] - 1
                    /\ \A k \in 1..(x[1] - 1) : t[k] \in WhiteSpace
                    /\ \A k \in (x[2] + 1)..Len(t) : t[k] \in WhiteSpace
                    /\ (x[2] >= x[1] => (t[x[1]] \notin WhiteSpace /\ t[x[2]] \notin WhiteSpace))}
        x == CHOOSE y \in cuts : TRUE
    IN SubSeq(t, x[1], x[2])

KeyOf(t) == Stripped(SubSeq(t, 1, FirstEq(t) - 1))

ValueOf(t) == Stripped(SubSeq(t, FirstEq(t) + 1, Len(t)))

WellFormed(t) == HasEq(t) /\ KeyOf(t) # <<>>

WellFormedEntries(s) == {e \in EntriesOf(s) : WellFormed(EntryText(s, e))}

PairOf(s, e) == <<KeyOf(EntryText(s, e)), ValueOf(EntryText(s, e))>>

Keys(h) == {p[1] : p \in h}

RECURSIVE JoinComma(_)
JoinComma(entries) ==
    IF entries = <<>> THEN <<>>
    ELSE IF Len(entries) = 1 THEN entries[1]
    ELSE entries[1] \o <<",">> \o JoinComma(Tail(entries))

\* "a=1, b=2,c = three"
ExampleThree ==
    <<"a", "=", "1", ",", " ", "b", "=", "2", ",", "c", " ", "=", " ", "t", "h", "r", "e", "e">>

\* "a=1=extra"
ExampleExtra == <<"a", "=", "1", "=", "e", "x", "t", "r", "a">>

\* "a=1,a=2"
ExampleDuplicate == <<"a", "=", "1", ",", "a", "=", "2">>

\* "novalue"
ExampleNoValue == <<"n", "o", "v", "a", "l", "u", "e">>

(* ------------------------------ claims --------------------------------- *)

\* C1: once the authenticator is built, RequireTransportSecurity() answers
\* exactly the configuration's TLS-enabled flag, every answer the channel
\* library has been given equals that flag, and the answer agrees with the
\* kind of transport credentials evaluateCredentials chose.
C1_RequireSecurityEqualsFlag ==
    /\ rtsSeen \subseteq {cfgs.ExporterTLSEnabled}
    /\ auth # Nil =>
        /\ RequireTransportSecurity(auth) = cfgs.ExporterTLSEnabled
        /\ RequireTransportSecurity(auth) = (Deref(creds).kind = "tls")

C1_Witness ==
    /\ ChannelOpen
    /\ auth # Nil
    /\ rtsSeen = {TRUE}
    /\ calls[1].pc = "sent"
    /\ Deref(auth).headers # {}

\* C2 (as claimed): a call that goes out on plaintext transport credentials
\* carries an empty header mapping.
C2_NoHeadersOnPlaintext ==
    \A c \in CallIds :
        (calls[c].pc = "sent" /\ Deref(creds).kind = "insecure") => calls[c].md = {}

\* C2 (amended): on plaintext transport credentials the authenticator does
\* not require transport security, and every call carries exactly the mapping
\* parsed from the header string; only a channel built without an
\* authenticator carries no headers.
C2_PlaintextCarriesParsedHeaders ==
    \A c \in CallIds :
        (calls[c].pc = "sent" /\ Deref(creds).kind = "insecure") =>
            IF auth = Nil THEN calls[c].md = {}
            ELSE /\ ~RequireTransportSecurity(auth)
                 /\ ~cfgs.ExporterTLSEnabled
                 /\ calls[c].md = ParseHeaders(cfgs.ExporterHeaders)

C2_Witness ==
    \E c \in CallIds :
        /\ calls[c].pc = "sent"
        /\ Deref(creds).kind = "insecure"
        /\ auth # Nil
        /\ calls[c].md = {<<(<<"a">>), (<<"1">>)>>}

\* C3: with the TLS flag off the transport credentials are plaintext, and
\* with the flag on they are TLS credentials over a non-empty trust pool.
C3_CredentialSelection ==
    creds # Nil =>
        IF ~cfgs.ExporterTLSEnabled THEN Deref(creds).kind = "insecure"
        ELSE Deref(creds).kind = "tls" /\ Deref(creds).certPool # {}

\* C4: every pair of the mapping is the (trimmed key before the first '=',
\* trimmed text after it) of a well-formed entry, every well-formed entry's
\* key is in the mapping, every key is non-empty with no whitespace at either
\* end, and the two worked examples come out as stated.
C4_PairsOfWellFormedEntries ==
    /\ ParseHeaders(ExampleThree) =
          {<<(<<"a">>), (<<"1">>)>>, <<(<<"b">>), (<<"2">>)>>,
           <<(<<"c">>), (<<"t", "h", "r", "e", "e">>)>>}
    /\ ParseHeaders(ExampleExtra) = {<<(<<"a">>), (<<"1", "=", "e", "x", "t", "r", "a">>)>>}
    /\ auth # Nil =>
        LET s == cfgs.ExporterHeaders
            h == Deref(auth).headers
            wf == WellFormedEntries(s)
        IN /\ \A p \in h : \E e \in wf : p = PairOf(s, e)
           /\ \A e \in wf : PairOf(s, e)[1] \in Keys(h)
           /\ \A p \in h : /\ p[1] # <<>>
                           /\ p[1][1] \notin WhiteSpace
                           /\ p[1][Len(p[1])] \notin WhiteSpace

\* " a=1=a"
C4_Witness ==
    /\ auth # Nil
    /\ cfgs.ExporterHeaders = <<" ", "a", "=", "1", "=", "a">>
    /\ Deref(auth).headers = {<<(<<"a">>), (<<"1", "=", "a">>)>>}

\* C5: parsing always yields an authenticator; an empty string or one with
\* no well-formed entry yields the empty mapping; and the mapping is the one
\* parsed from the well-formed entries alone.
C5_MalformedEntriesDropped ==
    /\ ParseHeaders(<<>>) = {}
    /\ ParseHeaders(ExampleNoValue) = {}
    /\ (variant = "otlpgrpc" /\ pc \notin {"start", "auth"}) => auth # Nil
    /\ auth # Nil =>
        LET s == cfgs.ExporterHeaders
            h == Deref(auth).headers
        IN /\ WellFormedEntries(s) = {} => h = {}
           /\ h = ParseHeaders(JoinComma(SelectSeq(Split(s, ","), WellFormed)))

\* "a,1=a,"
C5_Witness ==
    /\ auth # Nil
    /\ cfgs.ExporterHeaders = <<"a", ",", "1", "=", "a", ",">>
    /\ Deref(auth).headers = {<<(<<"1">>), (<<"a">>)>>}

\* C6: a key that several well-formed entries give is held once, with the
\* value of the rightmost of them.
C6_LastOccurrenceWins ==
    /\ ParseHeaders(ExampleDuplicate) = {<<(<<"a">>), (<<"2">>)>>}
    /\ auth # Nil =>
        LET s == cfgs.ExporterHeaders
            h == Deref(auth).headers
            wf == WellFormedEntries(s)
        IN \A e \in wf :
              (/\ \E f \in wf : f # e /\ PairOf(s, f)[1] = PairOf(s, e)[1]
               /\ \A f \in wf : PairOf(s, f)[1] = PairOf(s, e)[1] => f[1] <= e[1])
              => /\ PairOf(s, e) \in h
                 /\ Cardinality({p \in h : p[1] = PairOf(s, e)[1]}) = 1

\* "a=1,a="
C6_Witness ==
    /\ auth # Nil
    /\ cfgs.ExporterHeaders = <<"a", "=", "1", ",", "a", "=">>
    /\ Deref(auth).headers = {<<(<<"a">>), (<<>>)>>}

\* C7: NewExporterGRPCClient returns a handle or an error and never both or
\* neither: a rejected construction gives a nil handle and an error wrapping
\* the constructor's, an accepted one gives the constructor's handle and nil.
C7_HandleXorError ==
    pc = "done" =>
        LET r == Deref(ret)
        IN /\ (r.conn = Nil) # (r.err = Nil)
           /\ err # Nil => /\ r.conn = Nil
                           /\ r.err # Nil
                           /\ Deref(r.err).wraps = err
           /\ err = Nil => /\ conn # Nil
                           /\ r.conn = conn
                           /\ r.err = Nil
           /\ cfgs.Endpoint = BadEndpoint => r.conn = Nil

C7_Witness ==
    /\ pc = "done"
    /\ cfgs.Endpoint = BadEndpoint
    /\ Deref(ret).conn = Nil
    /\ Deref(Deref(Deref(ret).err).wraps).msg = "invalid target"

\* C8: every invocation of the channel constructor is given base delay 1s,
\* multiplier 1.6, maximum delay 15s and minimum connect timeout 0.
C8_FixedBackoff ==
    \A i \in 1..Len(ctorCalls) :
        ctorCalls[i].ConnectParams =
            [Backoff |-> [BaseDelay |-> 1, Multiplier |-> 16, MaxDelay |-> 15],
             MinConnectTimeout |-> 0]

C8_Witness ==
    /\ Len(ctorCalls) = 1
    /\ variant = "otlp_grpc"
    /\ cfgs.ExporterTLSEnabled
    /\ cfgs.ExporterIdleTimeout = 30
    /\ cfgs.ExporterKeepAliveTime = 10

C10_ConstructorInvokedOnce ==
    /\ pc \in {"start", "auth", "dial"} => Len(ctorCalls) = 0
    /\ pc \in {"check", "done"} => Len(ctorCalls) = 1
    /\ \A i \in 1..Len(ctorCalls) :
          /\ ctorCalls[i].TransportCredentials = creds
          /\ ctorCalls[i].IdleTimeout = cfgs.ExporterIdleTimeout
          /\ ctorCalls[i].KeepaliveParams.Time = cfgs.ExporterKeepAliveTime
          /\ ctorCalls[i].KeepaliveParams.Timeout = cfgs.ExporterKeepAliveTimeout

C10_Witness ==
    /\ pc = "done"
    /\ err # Nil
    /\ Deref(ret).err # Nil
    /\ Len(ctorCalls) = 1

====
